---- MODULE Spec2Model ----
(***************************************************************************)
(* Model of the ripeness API route handlers of nipponfruit-ai.             *)
(*                                                                         *)
(*   "ripeness" : src/app/api/ripeness/route.ts lines 149-326              *)
(*                (normalizeDate, calcDays, calcWindowDays, POST with the  *)
(*                 structured Advice object)                               *)
(*   "simple"   : src/unnamed/part_003 (calcDays, POST returning a single  *)
(*                 summary text)                                           *)
(*   "extras"   : src/app/api/ripeness/route.ts lines 1-148                *)
(*                (parseBody, getBaseAdvice, callOpenAiForExtras,          *)
(*                 normalizeAi, POST)                                      *)
(*                                                                         *)
(* Texts are sequences of tokens (strings).  Dates are texts whose tokens  *)
(* are single characters, so that the regular expression of normalizeDate  *)
(* and the formatting done by toISOString().slice(0, 10) are computed and  *)
(* not assumed.  A Date object is [valid, day]: day is the number of whole *)
(* days since 1970-01-01; the process time zone is taken to be UTC, so     *)
(* the local-time setDate of addDays moves the UTC date by whole days.     *)
(***************************************************************************)
EXTENDS Integers, Sequences, FiniteSets, TLC

(***************************************************************************)
(* Bounds of the model.                                                    *)
(***************************************************************************)
\* largest ripen_room_days / ripen_cool_days of the enumerated rules
MaxDays == 2
\* how many times the same request is submitted in SpecRerun
MaxRuns == 2
\* how many times the page's button is clicked in SpecPage
MaxSubmits == 2

(***************************************************************************)
(* Characters and numbers.                                                 *)
(***************************************************************************)
Digits == <<"0", "1", "2", "3", "4", "5", "6", "7", "8", "9">>

IsDigit(c) == \E i \in 1..10 : Digits[i] = c

DigitVal(c) == (CHOOSE i \in 1..10 : Digits[i] = c) - 1

RECURSIVE Pow10(_)
Pow10(k) == IF k = 0 THEN 1 ELSE 10 * Pow10(k - 1)

\* the decimal digits of n, zero-padded to width w (n < 10^w)
NumStr(n, w) == [i \in 1..w |-> Digits[((n \div Pow10(w - i)) % 10) + 1]]

RECURSIVE NumVal(_)
NumVal(s) ==
  IF s = <<>> THEN 0
  ELSE 10 * NumVal(SubSeq(s, 1, Len(s) - 1)) + DigitVal(s[Len(s)])

AllDigits(s) == \A i \in 1..Len(s) : IsDigit(s[i])

(***************************************************************************)
(* The calendar of the JavaScript Date object (proleptic Gregorian, UTC).  *)
(***************************************************************************)
DaysFromCivil(y, m, d) ==
  LET yy  == IF m <= 2 THEN y - 1 ELSE y
      era == yy \div 400
      yoe == yy - era * 400
      mp  == IF m > 2 THEN m - 3 ELSE m + 9
      doy == (153 * mp + 2) \div 5 + d - 1
      doe == yoe * 365 + yoe \div 4 - yoe \div 100 + doy
  IN  era * 146097 + doe - 719468

CivilFromDays(z) ==
  LET zz  == z + 719468
      era == zz \div 146097
      doe == zz - era * 146097
      yoe == (doe - doe \div 1460 + doe \div 36524 - doe \div 146096) \div 365
      doy == doe - (365 * yoe + yoe \div 4 - yoe \div 100)
      mp  == (5 * doy + 2) \div 153
      d   == doy - (153 * mp + 2) \div 5 + 1
      m   == IF mp < 10 THEN mp + 3 ELSE mp - 9
      y   == yoe + era * 400 + (IF m <= 2 THEN 1 ELSE 0)
  IN  [y |-> y, m |-> m, d |-> d]

InvalidDate == [valid |-> FALSE, day |-> 0]

\* s.replace(/\//g, "-")
ReplaceSlashes(s) == [i \in 1..Len(s) |-> IF s[i] = "/" THEN "-" ELSE s[i]]

\* /^\d{4}-\d{2}-\d{2}$/.test(s)
IsCanonicalDate(s) ==
  /\ Len(s) = 10
  /\ \A i \in {1, 2, 3, 4, 6, 7, 9, 10} : IsDigit(s[i])
  /\ s[5] = "-"
  /\ s[8] = "-"

\* the positions of the "-" separators of s
Dashes(s) == {i \in 1..Len(s) : s[i] = "-"}

\* A date the legacy (non-ISO) parser of the engine reads: digits separated by
\* two dashes, year-month-day with one- or two-digit month and day.
IsLooseDate(s) ==
  /\ Cardinality(Dashes(s)) = 2
  /\ LET i == CHOOSE k \in Dashes(s) : \A l \in Dashes(s) : k <= l
         j == CHOOSE k \in Dashes(s) : \A l \in Dashes(s) : k >= l
     IN  /\ i = 5
         /\ j - i \in {2, 3}
         /\ Len(s) - j \in {1, 2}
         /\ AllDigits(SubSeq(s, 1, i - 1))
         /\ AllDigits(SubSeq(s, i + 1, j - 1))
         /\ AllDigits(SubSeq(s, j + 1, Len(s)))

\* new Date(s) for a date-only text.  The ISO form YYYY-MM-DD is read as UTC
\* midnight; the engine (V8) accepts a day of 1..31 in any month and lets it
\* roll into the next month.  Other year-month-day texts go through the
\* legacy parser, which reads them as local midnight (UTC here).  Anything
\* else is an Invalid Date.
NewDate(s) ==
  IF IsCanonicalDate(s) \/ IsLooseDate(s)
  THEN LET j == CHOOSE k \in Dashes(s) : \A l \in Dashes(s) : k >= l
           y == NumVal(SubSeq(s, 1, 4))
           m == NumVal(SubSeq(s, 6, j - 1))
           d == NumVal(SubSeq(s, j + 1, Len(s)))
       IN  IF m \in 1..12 /\ d \in 1..31
           THEN [valid |-> TRUE, day |-> DaysFromCivil(y, m, 1) + d - 1]
           ELSE InvalidDate
  ELSE InvalidDate

\* isNaN(dt.getTime())
IsNaNDate(dt) == ~dt.valid

\* toISOString().slice(0, 10) of a valid Date: years 0..9999 print as
\* YYYY-MM-DD; a year above 9999 prints in the expanded form +YYYYYY-MM-DD,
\* of which the first ten characters are kept.
IsoDate(dt) ==
  LET c == CivilFromDays(dt.day)
      full == IF c.y <= 9999
              THEN NumStr(c.y, 4) \o <<"-">> \o NumStr(c.m, 2) \o
                   <<"-">> \o NumStr(c.d, 2)
              ELSE <<"+">> \o NumStr(c.y, 6) \o <<"-">> \o NumStr(c.m, 2) \o
                   <<"-">> \o NumStr(c.d, 2)
  IN  SubSeq(full, 1, 10)

addDays(d, n) ==
  IF d.valid THEN [valid |-> TRUE, day |-> d.day + n] ELSE InvalidDate

(***************************************************************************)
(* Texts: sequences of tokens.  " " and "\n" are white space; "<fence>"    *)
(* is a run of three backquotes and "<fence:json>" the same followed by    *)
(* the tag json (the markers the route searches for); a token of           *)
(* JsonTokens stands for the text of one JSON document (or of a broken     *)
(* one) and every other token is prose.                                    *)
(***************************************************************************)
WhiteSpace == {" ", "\n"}

IsBlank(t) == \A i \in 1..Len(t) : t[i] \in WhiteSpace

RECURSIVE TrimStart(_)
TrimStart(t) ==
  IF t # <<>> /\ t[1] \in WhiteSpace THEN TrimStart(Tail(t)) ELSE t

RECURSIVE TrimEnd(_)
TrimEnd(t) ==
  IF t # <<>> /\ t[Len(t)] \in WhiteSpace
  THEN TrimEnd(SubSeq(t, 1, Len(t) - 1))
  ELSE t

\* String.prototype.trim
Trim(t) == TrimEnd(TrimStart(t))

\* text.includes(sub)
Includes(t, sub) ==
  \E i \in 1..(Len(t) - Len(sub) + 1) : SubSeq(t, i, i + Len(sub) - 1) = sub

RECURSIVE Join(_, _)
\* Array.prototype.join of an array of texts
Join(ts, sep) ==
  IF ts = <<>> THEN <<>>
  ELSE IF Len(ts) = 1 THEN ts[1]
  ELSE ts[1] \o <<sep>> \o Join(Tail(ts), sep)

(***************************************************************************)
(* JSON values.  Every value is a record of the same shape, so that values *)
(* of different JSON types can be compared: k is the type, s the text of a *)
(* scalar, a the elements of an array (scalars), ws/we the start and end   *)
(* of a window object.                                                     *)
(***************************************************************************)
JV(k, s, a, ws, we) == [k |-> k, s |-> s, a |-> a, ws |-> ws, we |-> we]

Undef   == JV("undef", <<>>, <<>>, <<>>, <<>>)
Null    == JV("null", <<>>, <<>>, <<>>, <<>>)
Str(t)  == JV("str", t, <<>>, <<>>, <<>>)
Num(t)  == JV("num", t, <<>>, <<>>, <<>>)
Bool(t) == JV("bool", t, <<>>, <<>>, <<>>)
\* an array; its elements are records [k, s]
Arr(es) == JV("arr", <<>>, es, <<>>, <<>>)
\* an object {start, end} with two string fields
Win(s, e) == JV("win", <<>>, <<>>, s, e)
\* any other object
Obj     == JV("obj", <<>>, <<>>, <<>>, <<>>)

EStr(t) == [k |-> "str", s |-> t]
ENum(t) == [k |-> "num", s |-> t]
ENull   == [k |-> "null", s |-> <<>>]

\* JavaScript truthiness (Boolean(v), !v, v ? a : b)
Truthy(v) ==
  CASE v.k \in {"undef", "null"} -> FALSE
    [] v.k = "str"  -> v.s # <<>>
    [] v.k = "num"  -> v.s # <<"0">>
    [] v.k = "bool" -> v.s = <<"true">>
    [] OTHER -> TRUE

\* v ?? d
Coalesce(v, d) == IF v.k \in {"undef", "null"} THEN d ELSE v

\* the property names the routes read from a decoded object
Keys == {"summaryMd", "smartTips", "risks", "uses", "ripenessWindow",
         "tips", "practicalTips", "suggestions", "tip", "risk",
         "ideas", "idea"}

NoFields == [key \in Keys |-> Undef]

\* a decoded document: its own value v and, for an object, its properties
Doc(v, f) == [v |-> v, f |-> f]

NullDoc == Doc(Null, NoFields)

\* an object document with the given properties (a function on a subset of Keys)
ObjDoc(props) ==
  Doc(Obj, [key \in Keys |-> IF key \in DOMAIN props THEN props[key] ELSE Undef])

\* parsed?.key and parsed.key on a non-null value: a property of an object,
\* undefined on null, scalars and arrays
Prop(doc, key) == IF doc.v.k = "obj" THEN doc.f[key] ELSE Undef

(***************************************************************************)
(* The JSON documents the model's texts can hold.  Each token of           *)
(* JsonTokens is the text of one document; Catalog gives whether the text  *)
(* begins with "{", whether JSON.parse accepts it, and the decoded value.  *)
(***************************************************************************)
AiSummary == <<"ai-summary">>
AiStart   == <<"2", "0", "2", "4", "-", "0", "2", "-", "0", "1">>
AiEnd     == <<"2", "0", "2", "4", "-", "0", "2", "-", "0", "3">>

\* eight entries, two of them blank: six real tips
LongList ==
  <<EStr(<<"t1">>), EStr(<<>>), EStr(<<"t2">>), EStr(<<" ">>),
    EStr(<<"t3">>), EStr(<<"t4">>), EStr(<<"t5">>), EStr(<<"t6">>)>>

JsonTokens ==
  {"{full}", "{min}", "{nosummary}", "{blanksummary}", "{emptysummary}",
   "{badshape}", "{nullfields}", "{truncated", "[array]", "null", "5",
   "{extras}", "{aliases}", "{}", "{emptylists}"}

Entry(brace, valid, doc) == [brace |-> brace, valid |-> valid, doc |-> doc]

Catalog(tok) ==
  CASE tok = "{full}" ->
         Entry(TRUE, TRUE,
               ObjDoc([summaryMd |-> Str(AiSummary),
                       smartTips |-> Arr(LongList),
                       risks |-> Arr(<<EStr(<<"r1">>)>>),
                       uses |-> Arr(<<>>),
                       ripenessWindow |-> Win(AiStart, AiEnd)]))
    [] tok = "{min}" ->
         Entry(TRUE, TRUE, ObjDoc([summaryMd |-> Str(AiSummary)]))
    [] tok = "{nosummary}" ->
         Entry(TRUE, TRUE,
               ObjDoc([smartTips |-> Arr(<<EStr(<<"t1">>)>>),
                       ripenessWindow |-> Win(AiStart, AiEnd)]))
    [] tok = "{blanksummary}" ->
         Entry(TRUE, TRUE, ObjDoc([summaryMd |-> Str(<<" ">>)]))
    [] tok = "{emptysummary}" ->
         Entry(TRUE, TRUE,
               ObjDoc([summaryMd |-> Str(<<>>),
                       smartTips |-> Arr(<<EStr(<<"t1">>)>>)]))
    [] tok = "{badshape}" ->
         Entry(TRUE, TRUE,
               ObjDoc([summaryMd |-> Num(<<"5">>),
                       smartTips |-> Str(<<"t1">>),
                       risks |-> Arr(<<ENum(<<"1">>), ENull>>),
                       ripenessWindow |-> Obj]))
    [] tok = "{nullfields}" ->
         Entry(TRUE, TRUE,
               ObjDoc([summaryMd |-> Str(AiSummary),
                       smartTips |-> Null,
                       ripenessWindow |-> Null]))
    [] tok = "{truncated" -> Entry(TRUE, FALSE, NullDoc)
    [] tok = "[array]" ->
         Entry(FALSE, TRUE, Doc(Arr(<<EStr(<<"t1">>)>>), NoFields))
    [] tok = "null" -> Entry(FALSE, TRUE, NullDoc)
    [] tok = "5" -> Entry(FALSE, TRUE, Doc(Num(<<"5">>), NoFields))
    [] tok = "{extras}" ->
         Entry(TRUE, TRUE,
               ObjDoc([tips |-> Arr(LongList),
                       risks |-> Arr(<<EStr(<<"r1">>), ENum(<<"0">>)>>),
                       ideas |-> Arr(<<EStr(<<" i1 ">>)>>)]))
    [] tok = "{aliases}" ->
         Entry(TRUE, TRUE,
               ObjDoc([practicalTips |-> Arr(<<EStr(<<"t1">>)>>),
                       risk |-> Str(<<"r1">>),
                       uses |-> Arr(<<EStr(<<"u1">>)>>)]))
    [] tok = "{}" -> Entry(TRUE, TRUE, ObjDoc([summaryMd |-> Undef]))
    [] tok = "{emptylists}" ->
         Entry(TRUE, TRUE,
               ObjDoc([tips |-> Arr(<<>>),
                       risks |-> Arr(<<EStr(<<" ">>)>>),
                       ideas |-> Null]))
    \* the beginning {"note":" of an object whose one property is a string,
    \* and its end "}: neither is a document by itself
    [] tok = "{note:" -> Entry(TRUE, FALSE, NullDoc)
    [] tok = ":note}" -> Entry(FALSE, FALSE, NullDoc)
    [] OTHER -> Entry(FALSE, FALSE, NullDoc)

\* raw.startsWith("{")
StartsWithBrace(t) == t # <<>> /\ Catalog(t[1]).brace

\* tokens that can stand inside a JSON string as they are
StringSafe ==
  {"prose", " ", "{}", "5", "null", "<fence>", "<fence:json>", "<fence:JSON>"}

IsNoteObject(u) ==
  /\ Len(u) >= 2
  /\ u[1] = "{note:"
  /\ u[Len(u)] = ":note}"
  /\ \A i \in 2..(Len(u) - 1) : u[i] \in StringSafe

\* JSON.parse(t): [ok, doc]; ok = FALSE stands for the SyntaxError it throws.
\* White space around the document is allowed.
\* An object {"note": "..."} is a document when every token of its string is
\* free of quotes, backslashes and line breaks; it has none of the keys the
\* routes read.
JsonParse(t) ==
  LET u == Trim(t)
  IN  IF Len(u) = 1 /\ Catalog(u[1]).valid
      THEN [ok |-> TRUE, doc |-> Catalog(u[1]).doc]
      ELSE IF IsNoteObject(u)
      THEN [ok |-> TRUE, doc |-> ObjDoc([summaryMd |-> Undef])]
      ELSE [ok |-> FALSE, doc |-> NullDoc]

(***************************************************************************)
(* The fenced-block searches of the ripeness route.                        *)
(***************************************************************************)
JsonFences == {"<fence:json>", "<fence:JSON>"}

IsFence(tok) == tok = "<fence>" \/ tok \in JsonFences

NoMatch == [found |-> FALSE, cap |-> <<>>]

\* the least position in S
Least(S) == CHOOSE i \in S : \A j \in S : i <= j

\* the first raw.match of line 293 (fence tagged json, any case): the leftmost tagged fence that a
\* later fence closes; cap is group 1, the text up to the first closing fence
\* with the white space after the tag skipped.
MatchJsonFence(t) ==
  LET opens == {i \in 1..Len(t) :
                  t[i] \in JsonFences /\ \E j \in (i + 1)..Len(t) : IsFence(t[j])}
  IN  IF opens = {} THEN NoMatch
      ELSE LET i == Least(opens)
               j == Least({k \in (i + 1)..Len(t) : IsFence(t[k])})
           IN  [found |-> TRUE, cap |-> TrimStart(SubSeq(t, i + 1, j - 1))]

\* the second raw.match of line 293 (any fence): the leftmost fence of either kind that a
\* later fence closes; when it is a tagged fence its tag is the beginning of
\* group 1.
MatchAnyFence(t) ==
  LET opens == {i \in 1..Len(t) :
                  IsFence(t[i]) /\ \E j \in (i + 1)..Len(t) : IsFence(t[j])}
  IN  IF opens = {} THEN NoMatch
      ELSE LET i == Least(opens)
               j == Least({k \in (i + 1)..Len(t) : IsFence(t[k])})
               inner == SubSeq(t, i + 1, j - 1)
           IN  [found |-> TRUE,
                cap |-> IF t[i] \in JsonFences
                        THEN <<"json">> \o inner
                        ELSE TrimStart(inner)]

\* raw.match(tagged) || raw.match(untagged)
MatchFence(t) ==
  IF MatchJsonFence(t).found THEN MatchJsonFence(t) ELSE MatchAnyFence(t)

\* JSON.parse(t) with nothing around it to catch the SyntaxError
ParseUnguarded(t) ==
  [threw |-> ~JsonParse(t).ok,
   doc |-> IF JsonParse(t).ok THEN JsonParse(t).doc ELSE NullDoc]

\* try { parsed = JSON.parse(t) } catch {} (lines 290 and 295; lines 113-117
\* of the extras route): the SyntaxError is swallowed and nothing is decoded
TryParse(t) ==
  [threw |-> FALSE,
   doc |-> IF JsonParse(t).ok THEN JsonParse(t).doc ELSE NullDoc]

\* a decoding that never looks for a fenced block
ParseRawWholeOnly(raw) ==
  IF StartsWithBrace(raw) THEN TryParse(raw).doc ELSE NullDoc

\* Lines 288-297 of the ripeness route: the whole text is decoded when it
\* begins with "{"; when that gave nothing (parsed is falsy) the first fenced
\* block with a non-empty body is decoded.  A decoding error leaves parsed null.
ParseRaw(raw) ==
  LET whole == IF StartsWithBrace(raw) THEN TryParse(raw).doc ELSE NullDoc
      m == MatchFence(raw)
  IN  IF Truthy(whole.v) THEN whole
      ELSE IF m.found /\ m.cap # <<>> /\ JsonParse(m.cap).ok
           THEN TryParse(m.cap).doc
           ELSE whole

\* whether an exception leaves lines 288-297 and reaches the handler of
\* lines 310-312
ParseRaises(raw) ==
  LET whole == IF StartsWithBrace(raw)
               THEN TryParse(raw)
               ELSE [threw |-> FALSE, doc |-> NullDoc]
      m == MatchFence(raw)
  IN  \/ whole.threw
      \/ ~Truthy(whole.doc.v) /\ m.found /\ m.cap # <<>> /\ TryParse(m.cap).threw

(***************************************************************************)
(* normalizeAi of the extras route.                                        *)
(***************************************************************************)
MaxItems == 5

Take(xs, n) == SubSeq(xs, 1, IF Len(xs) < n THEN Len(xs) ELSE n)

\* String(x) of an array element or of a single value
ElemString(e) ==
  IF e.k \in {"str", "num", "bool"} THEN e.s
  ELSE IF e.k = "null" THEN <<"null">>
  ELSE IF e.k = "undef" THEN <<"undefined">>
  ELSE <<"[object Object]">>

ElemTruthy(e) == Truthy(JV(e.k, e.s, <<>>, <<>>, <<>>))

\* (Array.isArray(v) ? v : [v]).filter(Boolean).map(String).map(trim)
\*   .filter(s => s.length > 0).slice(0, 5)
toTextArray(v) ==
  LET es == IF v.k = "arr" THEN v.a ELSE <<[k |-> v.k, s |-> v.s]>>
      kept == SelectSeq(es, ElemTruthy)
      texts == [i \in 1..Len(kept) |-> Trim(ElemString(kept[i]))]
      NonEmpty(t) == Len(t) > 0
  IN  Take(SelectSeq(texts, NonEmpty), MaxItems)

NoAi == [tips |-> <<>>, risks |-> <<>>, ideas |-> <<>>]

DefaultTip == <<"default-storage-tip">>

normalizeAi(raw) ==
  IF ~Truthy(raw.v) \/ raw.v.k \notin {"obj", "arr", "win"} THEN NoAi
  ELSE LET tipsSrc == Coalesce(Prop(raw, "tips"),
                        Coalesce(Prop(raw, "practicalTips"),
                          Coalesce(Prop(raw, "suggestions"),
                            Coalesce(Prop(raw, "tip"), Arr(<<>>)))))
           risksSrc == Coalesce(Prop(raw, "risks"),
                         Coalesce(Prop(raw, "risk"), Arr(<<>>)))
           ideasSrc == Coalesce(Prop(raw, "ideas"),
                         Coalesce(Prop(raw, "uses"),
                           Coalesce(Prop(raw, "idea"), Arr(<<>>))))
           ai == [tips |-> toTextArray(tipsSrc),
                  risks |-> toTextArray(risksSrc),
                  ideas |-> toTextArray(ideasSrc)]
       IN  IF Len(ai.tips) + Len(ai.risks) + Len(ai.ideas) = 0
           THEN [ai EXCEPT !.tips = <<DefaultTip>>]
           ELSE ai

(***************************************************************************)
(* The rule dataset (fruit_rules.json, typed FruitRule).  An optional day  *)
(* count is <<>> when the rule omits it and <<n>> otherwise.  There is one *)
(* rule for every pair of day counts up to MaxDays, and the rule of the    *)
(* specification's scenarios (5 days at room temperature, 3 days cool).    *)
(***************************************************************************)
DayOpt(j) == IF j = 0 THEN <<>> ELSE <<j - 1>>

FruitRule(sku, room, cool) ==
  [sku |-> sku,
   name |-> <<"name:", sku>>,
   category |-> <<"category">>,
   ripen_room_days |-> room,
   ripen_cool_days |-> cool,
   temp_advice |-> <<"temp-advice">>,
   ready_signs |-> << <<"sign1">>, <<"sign2">> >>,
   donts |-> << <<"dont1">>, <<"dont2">> >>]

GridRules ==
  [i \in 1..((MaxDays + 2) * (MaxDays + 2)) |->
     FruitRule("sku-" \o ToString(i),
               DayOpt((i - 1) \div (MaxDays + 2)),
               DayOpt((i - 1) % (MaxDays + 2)))]

ScenarioSku == "beni-haruka"

Dataset == GridRules \o <<FruitRule(ScenarioSku, <<5>>, <<3>>)>>

NoRule == FruitRule("", <<>>, <<>>)

\* a lookup that falls back to the first rule instead of finding nothing
FindOrFirst(rs, sku) ==
  IF \E i \in 1..Len(rs) : rs[i].sku = sku
  THEN rs[Least({i \in 1..Len(rs) : rs[i].sku = sku})]
  ELSE rs[1]

\* rules.find((r) => r.sku === sku); NoRule stands for undefined
Find(rs, sku) ==
  IF \E i \in 1..Len(rs) : rs[i].sku = sku
  THEN rs[Least({i \in 1..Len(rs) : rs[i].sku = sku})]
  ELSE NoRule

\* rule.ripen_room_days ?? 0
OrZero(opt) == IF opt = <<>> THEN 0 ELSE opt[1]

(***************************************************************************)
(* Date arithmetic of the ripeness and simple routes.                      *)
(***************************************************************************)
Max(a, b) == IF a >= b THEN a ELSE b

RoomBucket == {"room", "cooldark"}

\* a bucket policy that counts cool-dark storage as cool storage
baseDaysOfRoomOnly(rule, storage) ==
  IF storage = "room"
  THEN OrZero(rule.ripen_room_days)
  ELSE OrZero(rule.ripen_cool_days)

baseDaysOf(rule, storage) ==
  IF storage \in RoomBucket
  THEN OrZero(rule.ripen_room_days)
  ELSE OrZero(rule.ripen_cool_days)

climateDelta(climate) ==
  IF climate = "hot" THEN -1 ELSE IF climate = "cold" THEN 1 ELSE 0

\* the day count without the floor at zero
calcDaysUnclamped(rule, storage, climate) ==
  baseDaysOf(rule, storage) + climateDelta(climate)

calcDays(rule, storage, climate) ==
  Max(0, baseDaysOf(rule, storage) + climateDelta(climate))

calcWindowDays(baseDays) ==
  [start |-> Max(0, baseDays - 1), end |-> baseDays + 1]

NullText == <<>>

\* null (NullText) unless the text, with "/" replaced by "-", has the
\* canonical form and the engine reads it as a date
normalizeDate(s) ==
  LET safe == ReplaceSlashes(s)
  IN  IF ~IsCanonicalDate(safe) THEN NullText
      ELSE IF IsNaNDate(NewDate(safe)) THEN NullText
      ELSE safe

\* the text both routes build from the rule and the ready date
BaseSummaryText(readyDate, rule) ==
  <<"ready: ">> \o readyDate \o <<"\n", "storage: ">> \o rule.temp_advice \o
  <<"\n", "donts: ">> \o Join(rule.donts, ", ") \o
  <<"\n", "signs: ">> \o Join(rule.ready_signs, ", ")

\* getBaseAdvice of the extras route: the ready date is two days after the
\* time of the call, whatever the request says
ExtrasReadyDate(nowDay) == IsoDate([valid |-> TRUE, day |-> nowDay + 2])

ExtrasBaseSummary(readyDate) ==
  <<"ready: ">> \o readyDate \o <<"\n", "storage: vegetable drawer">>

(***************************************************************************)
(* State.                                                                  *)
(***************************************************************************)
VARIABLES
  rules,        \* the rule dataset the routes import
  variant,      \* which route handles the request
  req,          \* the request: [json_ok, sku, receivedAt, storage, climate]
  now,          \* the day Date.now() gave when it was last read (0 before)
  pc,           \* the handler's position
  receivedAt,   \* the intake date the handler works with
  rule,         \* the rule found (NoRule before)
  days,         \* calcDays(...)
  readyDate, windowStart, windowEnd, baseSummary,
  advice,       \* the ripeness route's Advice
  summary,      \* the simple route's summary
  ai,           \* the extras route's aiResult
  gwCalls,      \* calls of client.chat.completions.create in this run
  arith,        \* whether calcDays / addDays have run in this run
  advisory,     \* outcome of the advisory stage: none, succeeded, failed
                \* (the call threw), raised (decoding the answer threw)
  resp,         \* the response (status 0 before the handler returns)
  run,          \* the number of the current submission of the request
  prev,         \* the response of the previous submission
  rawText,      \* raw: the text the handler took from the advisor's answer
  thrown,       \* message of the error the outer catch caught (<<>>: none)
  tiers,        \* the parser tiers the ripeness route ran on rawText
  other,        \* a second request's pipeline, suspended at an await
  page          \* the ripeness page: its form, its state and its fetch

vars == <<rules, variant, req, now, pc, receivedAt, rule, days, readyDate,
          windowStart, windowEnd, baseSummary, advice, summary, ai, gwCalls,
          arith, advisory, resp, run, prev, rawText, thrown, tiers, other,
          page>>

locals == <<receivedAt, rule, days, readyDate, windowStart, windowEnd,
            baseSummary, advice, summary, ai, gwCalls, arith, advisory,
            rawText, thrown, tiers>>

Variants == {"ripeness", "simple", "extras"}

Storages == {"room", "fridge", "vegroom", "cooldark"}

Climates == {"cold", "normal", "hot"}

NoAdvice ==
  [summaryMd |-> Undef, smartTips |-> Undef, risks |-> Undef, uses |-> Undef,
   ripenessWindow |-> Undef]

NoResp ==
  [status |-> 0, fields |-> {}, error |-> <<>>, sku |-> "", name |-> <<>>,
   readyDate |-> <<>>, baseSummary |-> <<>>, summary |-> <<>>,
   advice |-> NoAdvice, ai |-> NoAi]

\* NextResponse.json({ error }, { status })
ErrorResp(status, message) ==
  [NoResp EXCEPT !.status = status, !.fields = {"error"}, !.error = message]

DateFormatError == <<"date-format-error">>
UnknownSku      == <<"unknown sku">>
MissingFields   == <<"missing required fields: sku/receivedAt">>
\* err.message of what req.json() throws on a body that is not JSON
BodySyntaxError == <<"SyntaxError: Unexpected token in JSON">>
\* err.message of what toISOString throws on an Invalid Date
InvalidTimeValue == <<"RangeError: Invalid time value">>

(***************************************************************************)
(* Requests.                                                               *)
(***************************************************************************)
D(y, m, d) == NumStr(y, 4) \o <<"-">> \o NumStr(m, 2) \o <<"-">> \o NumStr(d, 2)

WithSlashes(s) == [i \in 1..Len(s) |-> IF s[i] = "-" THEN "/" ELSE s[i]]

\* dates the ripeness route accepts
GoodDates ==
  {D(2024, 1, 1), WithSlashes(D(2024, 1, 1)), D(2024, 2, 28), D(2024, 12, 31),
   D(2024, 2, 30), D(9999, 12, 31)}

\* texts that are not a canonical calendar date
BadDates ==
  {<<>>, <<"a", "b", "c">>, <<"2", "0", "2", "4", "-", "1", "-", "5">>,
   D(2024, 13, 1)}

AllSkus == {Dataset[i].sku : i \in 1..Len(Dataset)} \cup {"unknown-sku"}

Request(ok, sku, date, storage, climate) ==
  [json_ok |-> ok, sku |-> sku, receivedAt |-> date, storage |-> storage,
   climate |-> climate]

\* every rule, storage and climate on two intake dates; every intake date on
\* the scenario rule and an unknown identifier; a body that is not JSON
Requests ==
  {Request(TRUE, k, d, st, cl) :
     k \in AllSkus, d \in {D(2024, 1, 1), D(2024, 12, 31)},
     st \in Storages \cup {"freezer"}, cl \in Climates \cup {"tropical"}}
  \cup
  {Request(TRUE, k, d, st, cl) :
     k \in {ScenarioSku, "unknown-sku"}, d \in GoodDates \cup BadDates,
     st \in {"room", "fridge"}, cl \in {"normal", "hot"}}
  \cup
  {Request(FALSE, "", <<>>, "", "")}

RerunRequests ==
  {Request(TRUE, k, d, st, cl) :
     k \in {ScenarioSku, "unknown-sku"},
     d \in {D(2024, 1, 1), D(2024, 2, 28), <<"a", "b", "c">>},
     st \in {"room", "fridge"}, cl \in {"normal", "hot"}}

NowDays == {DaysFromCivil(2024, 1, 1), DaysFromCivil(2024, 1, 2)}

\* One invocation of a POST handler: the request it was given, its position
\* and everything it holds in its own scope (the consts and lets of POST and
\* the reading it took of the clock).
Context(v, rq, p) ==
  [variant |-> v, req |-> rq, now |-> 0, pc |-> p, receivedAt |-> <<>>,
   rule |-> NoRule, days |-> 0, readyDate |-> <<>>, windowStart |-> <<>>,
   windowEnd |-> <<>>, baseSummary |-> <<>>, advice |-> NoAdvice,
   summary |-> <<>>, ai |-> NoAi, gwCalls |-> 0, arith |-> FALSE,
   advisory |-> "none", resp |-> NoResp, rawText |-> <<>>, thrown |-> <<>>,
   tiers |-> {}]

\* no second request
NoOther == Context("ripeness", Request(FALSE, "", <<>>, "", ""), "absent")

\* a state hook that holds null, or a value
IsNull == [set |-> FALSE, val |-> NoResp, text |-> <<>>]

ResultOf(data) == [set |-> TRUE, val |-> data, text |-> <<>>]

ErrorOf(message) == [set |-> TRUE, val |-> NoResp, text |-> message]

\* the body of a request that was not sent
NoBody == [sku |-> "", receivedAt |-> <<>>]

\* useState's initial values in the page, page.tsx lines 96-104 (part_000
\* 36-43, part_001 276-283): the hooks start with loading false and with
\* result and error null.  Beside the hooks the record keeps what the runs
\* of submit did: the number of runs started (submits) and of runs waiting
\* for their fetch (inflight); for the latest run, the requests it sent
\* (sent, body), whether the form it read had a known sku and a canonical
\* date (valid) and how it ended (outcome).
PageState(version, sku, date) ==
  [version |-> version, sku |-> sku, receivedAt |-> date, loading |-> FALSE,
   result |-> IsNull, error |-> IsNull, inflight |-> 0, sent |-> 0,
   body |-> NoBody, valid |-> TRUE, outcome |-> "none", submits |-> 0]

\* the page before any input
NoPage == PageState("page", ScenarioSku, D(2024, 1, 1))

\* the dataset as loaded and one request at the entry of its handler
Fresh(requests) ==
  /\ rules = Dataset
  /\ variant \in Variants
  /\ req \in requests
  /\ now = 0
  /\ pc = "start"
  /\ receivedAt = <<>>
  /\ rule = NoRule
  /\ days = 0
  /\ readyDate = <<>>
  /\ windowStart = <<>>
  /\ windowEnd = <<>>
  /\ baseSummary = <<>>
  /\ advice = NoAdvice
  /\ summary = <<>>
  /\ ai = NoAi
  /\ gwCalls = 0
  /\ arith = FALSE
  /\ advisory = "none"
  /\ resp = NoResp
  /\ run = 1
  /\ prev = NoResp
  /\ rawText = <<>>
  /\ thrown = <<>>
  /\ tiers = {}

InitWith(requests) ==
  /\ Fresh(requests)
  /\ other = NoOther
  /\ page = NoPage

Init == InitWith(Requests)

InitRerun == InitWith(RerunRequests)

\* the handler returns r
Return(r) ==
  /\ resp' = r
  /\ pc' = "done"

\* a return that is not made by the outer catch
Answer(r) ==
  /\ Return(r)
  /\ UNCHANGED thrown

\* the outer catch of a route: it answers with the given status and with the
\* message of the error it caught (route.ts 322-325 and 144-147, part_003
\* 105-110)
Caught(status, message) ==
  /\ Return(ErrorResp(status, message))
  /\ thrown' = message

(***************************************************************************)
(* What the external text service can answer.  content is                  *)
(* choices[0].message.content: absent, or a text.                          *)
(***************************************************************************)
NoContent == [present |-> FALSE, text |-> <<>>]

Content(t) == [present |-> TRUE, text |-> t]

RipenessTexts ==
  {<<>>, <<" ">>, <<"prose">>, <<"prose", " ", "more">>,
   <<"{full}">>, <<" ", "{full}", "\n">>, <<"{min}">>, <<"{nosummary}">>,
   <<"{blanksummary}">>, <<"{emptysummary}">>, <<"{badshape}">>,
   <<"{nullfields}">>, <<"{truncated">>,
   <<"prose", "\n", "<fence:json>", "\n", "{full}", "\n", "<fence>", "more">>,
   <<"<fence:JSON>", "{min}", "<fence>">>,
   <<"<fence>", "\n", "{min}", "\n", "<fence>">>,
   <<"<fence>", "prose", "<fence>", "<fence:json>", "{min}", "<fence>">>,
   <<"<fence:json>", "{min}">>,
   <<"<fence:json>", "{truncated", "<fence>">>,
   <<"<fence:json>", "{nosummary}", "<fence>">>,
   <<"<fence:json>", "{badshape}", "<fence>">>,
   <<"<fence:json>", "null", "<fence>">>,
   <<"<fence>", "5", "<fence>">>,
   <<"<fence:json>", "\n", "<fence>">>,
   <<"{truncated", "\n", "<fence:json>", "{min}", "<fence>">>,
   <<"{nosummary}", "\n", "<fence:json>", "{min}", "<fence>">>,
   <<"{}">>, <<"null">>,
   <<"{note:", "<fence>", "{}", "<fence>", ":note}">>,
   <<"{note:", "prose", ":note}">>,
   <<"{note:", "prose">>}

SimpleTexts == {<<>>, <<" ">>, <<"prose">>, <<" ", "prose", "\n">>}

ExtrasTexts ==
  {<<>>, <<"prose">>, <<"{extras}">>, <<" ", "{aliases}">>, <<"{}">>,
   <<"{emptylists}">>, <<"{truncated">>, <<"null">>, <<"5">>, <<"[array]">>,
   <<"{full}">>}

Contents(v) ==
  {NoContent} \cup
  {Content(t) : t \in CASE v = "ripeness" -> RipenessTexts
                        [] v = "simple" -> SimpleTexts
                        [] OTHER -> ExtrasTexts}

\* content?.trim() || ""
RawOf(content) == IF content.present THEN Trim(content.text) ELSE <<>>

(***************************************************************************)
(* The ripeness route, route.ts lines 215-326.                             *)
(***************************************************************************)
\* lines 216-225: req.json() and normalizeDate
RipenessValidate ==
  /\ pc = "start"
  /\ variant = "ripeness"
  /\ IF ~req.json_ok
     THEN /\ Caught(500, BodySyntaxError)
          /\ UNCHANGED receivedAt
     ELSE IF normalizeDate(req.receivedAt) = NullText
     THEN /\ Answer(ErrorResp(400, DateFormatError))
          /\ UNCHANGED receivedAt
     ELSE /\ receivedAt' = normalizeDate(req.receivedAt)
          /\ pc' = "lookup"
          /\ UNCHANGED <<resp, thrown>>
  /\ UNCHANGED <<other, page, tiers, rules, variant, req, now, rule, days,
                 readyDate, windowStart, windowEnd, baseSummary, advice,
                 summary, ai, gwCalls, arith, advisory, run, prev, rawText>>

\* lines 227-228: rules.find
RipenessLookup ==
  /\ pc = "lookup"
  /\ variant = "ripeness"
  /\ IF Find(rules, req.sku) = NoRule
     THEN /\ Answer(ErrorResp(400, UnknownSku))
          /\ UNCHANGED rule
     ELSE /\ rule' = Find(rules, req.sku)
          /\ pc' = "baseline"
          /\ UNCHANGED <<resp, thrown>>
  /\ UNCHANGED <<other, page, tiers, rules, variant, req, now, receivedAt,
                 days, readyDate, windowStart, windowEnd, baseSummary, advice,
                 summary, ai, gwCalls, arith, advisory, run, prev, rawText>>

\* lines 230-249: calcDays, the three dates, the base summary and the
\* Advice the route starts from
RipenessBaseline ==
  /\ pc = "baseline"
  /\ variant = "ripeness"
  /\ LET n == calcDays(rule, req.storage, req.climate)
         w == calcWindowDays(n)
         rd == IsoDate(addDays(NewDate(receivedAt), n))
         ws == IsoDate(addDays(NewDate(receivedAt), w.start))
         we == IsoDate(addDays(NewDate(receivedAt), w.end))
     IN  /\ days' = n
         /\ readyDate' = rd
         /\ windowStart' = ws
         /\ windowEnd' = we
         /\ baseSummary' = BaseSummaryText(rd, rule)
         /\ advice' = [summaryMd |-> Str(<<>>), smartTips |-> Arr(<<>>),
                       risks |-> Arr(<<>>), uses |-> Arr(<<>>),
                       ripenessWindow |-> Win(ws, we)]
  /\ arith' = TRUE
  /\ pc' = "advisor"
  /\ UNCHANGED <<other, page, tiers, rules, variant, req, now, receivedAt,
                 rule, summary, ai, gwCalls, advisory, resp, run, prev,
                 rawText, thrown>>

\* a call that is sent a second time when the first attempt is not answered
CallGatewayWithRetry ==
  /\ pc = "advisor"
  /\ gwCalls' = gwCalls + 2
  /\ pc' = "awaiting"
  /\ UNCHANGED <<other, page, tiers, rules, variant, req, now, receivedAt,
                 rule, days, readyDate, windowStart, windowEnd, baseSummary,
                 advice, summary, ai, arith, advisory, resp, run, prev,
                 rawText, thrown>>

\* lines 281-284: the call is sent and the handler waits for it
CallGateway ==
  /\ pc = "advisor"
  /\ gwCalls' = gwCalls + 1
  /\ pc' = "awaiting"
  /\ UNCHANGED <<other, page, tiers, rules, variant, req, now, receivedAt,
                 rule, days, readyDate, windowStart, windowEnd, baseSummary,
                 advice, summary, ai, arith, advisory, resp, run, prev,
                 rawText, thrown>>

\* The tiers lines 288-309 run on the text raw: "whole" is the JSON.parse of
\* the whole text (line 290, behind the startsWith of line 289), "fence" the
\* search for a fenced block (line 293, behind the !parsed of line 292) and
\* "plain" the use of the text as the summary (line 308, behind the else-if
\* of line 307).
TiersRun(raw) ==
  LET whole == IF StartsWithBrace(raw) THEN TryParse(raw).doc ELSE NullDoc
  IN  (IF StartsWithBrace(raw) THEN {"whole"} ELSE {})
      \cup (IF ~Truthy(whole.v) THEN {"fence"} ELSE {})
      \cup (IF ~Truthy(Prop(ParseRaw(raw), "summaryMd")) /\ raw # <<>>
            THEN {"plain"} ELSE {})

\* an Advice that is only ever taken from a decoded object: prose is dropped
AdviceFromStructuredOnly(raw, start) ==
  LET parsed == ParseRaw(raw)
  IN  IF Truthy(Prop(parsed, "summaryMd"))
      THEN [summaryMd |-> Prop(parsed, "summaryMd"),
            smartTips |-> Coalesce(Prop(parsed, "smartTips"), Arr(<<>>)),
            risks |-> Coalesce(Prop(parsed, "risks"), Arr(<<>>)),
            uses |-> Coalesce(Prop(parsed, "uses"), Arr(<<>>)),
            ripenessWindow |-> Coalesce(Prop(parsed, "ripenessWindow"),
                                        start.ripenessWindow)]
      ELSE start

\* an Advice that keeps the lists and the window of a decoded object even
\* when the object has no summary
AdviceFromPartial(raw, start) ==
  LET parsed == ParseRaw(raw)
  IN  [summaryMd |-> IF Truthy(Prop(parsed, "summaryMd"))
                     THEN Prop(parsed, "summaryMd")
                     ELSE IF raw # <<>> THEN Str(raw) ELSE start.summaryMd,
       smartTips |-> Coalesce(Prop(parsed, "smartTips"), Arr(<<>>)),
       risks |-> Coalesce(Prop(parsed, "risks"), Arr(<<>>)),
       uses |-> Coalesce(Prop(parsed, "uses"), Arr(<<>>)),
       ripenessWindow |-> Coalesce(Prop(parsed, "ripenessWindow"),
                                   start.ripenessWindow)]

\* an Advice whose window is always the computed one, whatever the decoded
\* object offers
AdviceFromComputedWindowOnly(raw, start) ==
  LET parsed == ParseRaw(raw)
  IN  IF Truthy(Prop(parsed, "summaryMd"))
      THEN [summaryMd |-> Prop(parsed, "summaryMd"),
            smartTips |-> Coalesce(Prop(parsed, "smartTips"), Arr(<<>>)),
            risks |-> Coalesce(Prop(parsed, "risks"), Arr(<<>>)),
            uses |-> Coalesce(Prop(parsed, "uses"), Arr(<<>>)),
            ripenessWindow |-> start.ripenessWindow]
      ELSE IF raw # <<>>
      THEN [start EXCEPT !.summaryMd = Str(raw)]
      ELSE start

\* lines 299-309: the Advice built from the decoded answer
AdviceFrom(raw, start) ==
  LET parsed == ParseRaw(raw)
  IN  IF Truthy(Prop(parsed, "summaryMd"))
      THEN [summaryMd |-> Prop(parsed, "summaryMd"),
            smartTips |-> Coalesce(Prop(parsed, "smartTips"), Arr(<<>>)),
            risks |-> Coalesce(Prop(parsed, "risks"), Arr(<<>>)),
            uses |-> Coalesce(Prop(parsed, "uses"), Arr(<<>>)),
            ripenessWindow |-> Coalesce(Prop(parsed, "ripenessWindow"),
                                        start.ripenessWindow)]
      ELSE IF raw # <<>>
      THEN [start EXCEPT !.summaryMd = Str(raw)]
      ELSE start

\* lines 314-321
RipenessResp(adv) ==
  [NoResp EXCEPT !.status = 200,
                 !.fields = {"sku", "name", "readyDate", "baseSummary",
                             "advice", "summary"},
                 !.sku = rule.sku, !.name = rule.name,
                 !.readyDate = readyDate, !.baseSummary = baseSummary,
                 !.advice = adv, !.summary = baseSummary]

\* lines 286-321: the call returned
RipenessAdvisorReturns ==
  /\ pc = "awaiting"
  /\ variant = "ripeness"
  /\ \E content \in Contents("ripeness") :
       /\ rawText' = RawOf(content)
       /\ tiers' = TiersRun(RawOf(content))
       /\ IF ParseRaises(RawOf(content))
          THEN /\ advisory' = "raised"
               /\ Answer(RipenessResp(advice))
               /\ UNCHANGED advice
          ELSE /\ advisory' = "succeeded"
               /\ advice' = AdviceFrom(RawOf(content), advice)
               /\ Answer(RipenessResp(AdviceFrom(RawOf(content), advice)))
  /\ UNCHANGED <<other, page, rules, variant, req, now, receivedAt, rule,
                 days, readyDate, windowStart, windowEnd, baseSummary,
                 summary, ai, gwCalls, arith, run, prev>>

\* the call threw and nothing caught it before the outer handler
RipenessAdvisorRethrows ==
  /\ pc = "awaiting"
  /\ variant = "ripeness"
  /\ Caught(500, <<"advisor error">>)
  /\ advisory' = "failed"
  /\ UNCHANGED <<other, page, tiers, rules, variant, req, now, receivedAt,
                 rule, days, readyDate, windowStart, windowEnd, baseSummary,
                 advice, summary, ai, gwCalls, arith, run, prev, rawText>>

\* lines 310-321: the call threw (network, authentication, rate limit, the
\* client's timeout); the error is logged and the Advice stays as it was
RipenessAdvisorThrows ==
  /\ pc = "awaiting"
  /\ variant = "ripeness"
  /\ Answer(RipenessResp(advice))
  /\ advisory' = "failed"
  /\ UNCHANGED <<other, page, tiers, rules, variant, req, now, receivedAt,
                 rule, days, readyDate, windowStart, windowEnd, baseSummary,
                 advice, summary, ai, gwCalls, arith, run, prev, rawText>>

(***************************************************************************)
(* The simple route, part_003 lines 35-111.                                *)
(***************************************************************************)
\* lines 37-40: req.json() and the replacement of "/" in the intake date
SimpleRead ==
  /\ pc = "start"
  /\ variant = "simple"
  /\ IF ~req.json_ok
     THEN /\ Caught(500, BodySyntaxError)
          /\ UNCHANGED receivedAt
     ELSE /\ receivedAt' = ReplaceSlashes(req.receivedAt)
          /\ pc' = "lookup"
          /\ UNCHANGED <<resp, thrown>>
  /\ UNCHANGED <<other, page, tiers, rules, variant, req, now, rule, days,
                 readyDate, windowStart, windowEnd, baseSummary, advice,
                 summary, ai, gwCalls, arith, advisory, run, prev, rawText>>

\* lines 42-45
SimpleLookup ==
  /\ pc = "lookup"
  /\ variant = "simple"
  /\ IF Find(rules, req.sku) = NoRule
     THEN /\ Answer(ErrorResp(400, UnknownSku))
          /\ UNCHANGED rule
     ELSE /\ rule' = Find(rules, req.sku)
          /\ pc' = "baseline"
          /\ UNCHANGED <<resp, thrown>>
  /\ UNCHANGED <<other, page, tiers, rules, variant, req, now, receivedAt,
                 days, readyDate, windowStart, windowEnd, baseSummary, advice,
                 summary, ai, gwCalls, arith, advisory, run, prev, rawText>>

\* lines 47-59: the ready date and the fail-safe summary; toISOString throws
\* on an Invalid Date and the outer catch (lines 105-110) answers 500
SimpleBaseline ==
  /\ pc = "baseline"
  /\ variant = "simple"
  /\ LET n == calcDays(rule, req.storage, req.climate)
         d == addDays(NewDate(receivedAt), n)
     IN  /\ days' = n
         /\ IF IsNaNDate(d)
            THEN /\ Caught(500, InvalidTimeValue)
                 /\ UNCHANGED <<readyDate, summary>>
            ELSE /\ readyDate' = IsoDate(d)
                 /\ summary' = BaseSummaryText(IsoDate(d), rule)
                 /\ pc' = "advisor"
                 /\ UNCHANGED <<resp, thrown>>
  /\ arith' = TRUE
  /\ UNCHANGED <<other, page, tiers, rules, variant, req, now, receivedAt,
                 rule, windowStart, windowEnd, baseSummary, advice, ai,
                 gwCalls, advisory, run, prev, rawText>>

\* lines 99-104
SimpleResp(text) ==
  [NoResp EXCEPT !.status = 200,
                 !.fields = {"sku", "name", "readyDate", "summary"},
                 !.sku = rule.sku, !.name = rule.name,
                 !.readyDate = readyDate, !.summary = text]

\* the advisor's text taken as it is, blank or not
SimpleSummaryNoFallback(content, fallback) == RawOf(content)

\* line 94: content?.trim() || summary
SimpleSummary(content, fallback) ==
  IF RawOf(content) # <<>> THEN RawOf(content) ELSE fallback

\* lines 94-104: the call returned
SimpleAdvisorReturns ==
  /\ pc = "awaiting"
  /\ variant = "simple"
  /\ \E content \in Contents("simple") :
       /\ rawText' = RawOf(content)
       /\ summary' = SimpleSummary(content, summary)
       /\ Answer(SimpleResp(SimpleSummary(content, summary)))
  /\ advisory' = "succeeded"
  /\ UNCHANGED <<other, page, tiers, rules, variant, req, now, receivedAt,
                 rule, days, readyDate, windowStart, windowEnd, baseSummary,
                 advice, ai, gwCalls, arith, run, prev>>

\* lines 95-104: the call threw
SimpleAdvisorThrows ==
  /\ pc = "awaiting"
  /\ variant = "simple"
  /\ Answer(SimpleResp(summary))
  /\ advisory' = "failed"
  /\ UNCHANGED <<other, page, tiers, rules, variant, req, now, receivedAt,
                 rule, days, readyDate, windowStart, windowEnd, baseSummary,
                 advice, summary, ai, gwCalls, arith, run, prev, rawText>>

(***************************************************************************)
(* The extras route, route.ts lines 122-148.                               *)
(***************************************************************************)
\* lines 124-125 and parseBody (41-52); the outer catch (144-147) answers
\* 400 with the error's message
ExtrasRead ==
  /\ pc = "start"
  /\ variant = "extras"
  /\ IF ~req.json_ok
     THEN /\ Caught(400, BodySyntaxError)
          /\ UNCHANGED receivedAt
     ELSE IF req.sku = "" \/ Trim(req.receivedAt) = <<>>
     THEN /\ Caught(400, MissingFields)
          /\ UNCHANGED receivedAt
     ELSE /\ receivedAt' = Trim(req.receivedAt)
          /\ pc' = "baseline"
          /\ UNCHANGED <<resp, thrown>>
  /\ UNCHANGED <<other, page, tiers, rules, variant, req, now, rule, days,
                 readyDate, windowStart, windowEnd, baseSummary, advice,
                 summary, ai, gwCalls, arith, advisory, run, prev, rawText>>

\* line 127, getBaseAdvice (55-75), and the empty aiResult of line 129; the
\* clock is read here and never runs backwards
ExtrasBase ==
  /\ pc = "baseline"
  /\ variant = "extras"
  /\ \E today \in NowDays :
       /\ today >= now
       /\ now' = today
       /\ readyDate' = ExtrasReadyDate(today)
       /\ baseSummary' = ExtrasBaseSummary(ExtrasReadyDate(today))
  /\ ai' = NoAi
  /\ arith' = TRUE
  /\ pc' = "advisor"
  /\ UNCHANGED <<other, page, tiers, rules, variant, req, rule, receivedAt,
                 days, windowStart, windowEnd, advice, summary, gwCalls,
                 advisory, resp, run, prev, rawText, thrown>>

\* lines 136-143
ExtrasResp(aiResult) ==
  [NoResp EXCEPT !.status = 200,
                 !.fields = {"sku", "readyDate", "baseSummary", "ai", "model"},
                 !.sku = req.sku, !.readyDate = readyDate,
                 !.baseSummary = baseSummary, !.ai = aiResult]

\* lines 111-118 of callOpenAiForExtras: content ?? "{}", JSON.parse with {}
\* on failure, normalizeAi
ExtrasText(content) == IF content.present THEN content.text ELSE <<"{}">>

ExtrasAi(content) ==
  LET text == ExtrasText(content)
      parsed == IF JsonParse(text).ok
                THEN TryParse(text).doc
                ELSE Catalog("{}").doc
  IN  normalizeAi(parsed)

\* lines 131, 136-143: the call returned
ExtrasAdvisorReturns ==
  /\ pc = "awaiting"
  /\ variant = "extras"
  /\ \E content \in Contents("extras") :
       /\ rawText' = ExtrasText(content)
       /\ IF TryParse(ExtrasText(content)).threw
          THEN /\ advisory' = "raised"
               /\ Answer(ExtrasResp(ai))
               /\ UNCHANGED ai
          ELSE /\ advisory' = "succeeded"
               /\ ai' = ExtrasAi(content)
               /\ Answer(ExtrasResp(ExtrasAi(content)))
  /\ UNCHANGED <<other, page, tiers, rules, variant, req, now, receivedAt,
                 rule, days, readyDate, windowStart, windowEnd, baseSummary,
                 advice, summary, gwCalls, arith, run, prev>>

\* lines 132-143: the call threw
ExtrasAdvisorThrows ==
  /\ pc = "awaiting"
  /\ variant = "extras"
  /\ Answer(ExtrasResp(ai))
  /\ advisory' = "failed"
  /\ UNCHANGED <<other, page, tiers, rules, variant, req, now, receivedAt,
                 rule, days, readyDate, windowStart, windowEnd, baseSummary,
                 advice, summary, ai, gwCalls, arith, run, prev, rawText>>

(***************************************************************************)
(* The same request is sent again (the page's submit button): a new run of *)
(* the handler, whose locals start afresh.                                 *)
(***************************************************************************)
Resubmit ==
  /\ pc = "done"
  /\ run < MaxRuns
  /\ run' = run + 1
  /\ prev' = resp
  /\ resp' = NoResp
  /\ pc' = "start"
  /\ receivedAt' = <<>>
  /\ rule' = NoRule
  /\ days' = 0
  /\ readyDate' = <<>>
  /\ windowStart' = <<>>
  /\ windowEnd' = <<>>
  /\ baseSummary' = <<>>
  /\ advice' = NoAdvice
  /\ summary' = <<>>
  /\ ai' = NoAi
  /\ gwCalls' = 0
  /\ arith' = FALSE
  /\ advisory' = "none"
  /\ rawText' = <<>>
  /\ thrown' = <<>>
  /\ tiers' = {}
  /\ UNCHANGED <<other, page, rules, variant, req, now>>

(***************************************************************************)
(* Two requests in one process.  A handler runs until it awaits (req.json() *)
(* at its entry, getBaseAdvice in the extras route, the advisor call) or   *)
(* returns; the runtime may then resume the other handler.  What belongs   *)
(* to an invocation of POST is put aside with it; the module-level rules   *)
(* are the same object for both.                                           *)
(***************************************************************************)
Current ==
  [variant |-> variant, req |-> req, now |-> now, pc |-> pc,
   receivedAt |-> receivedAt, rule |-> rule, days |-> days,
   readyDate |-> readyDate, windowStart |-> windowStart,
   windowEnd |-> windowEnd, baseSummary |-> baseSummary, advice |-> advice,
   summary |-> summary, ai |-> ai, gwCalls |-> gwCalls, arith |-> arith,
   advisory |-> advisory, resp |-> resp, rawText |-> rawText,
   thrown |-> thrown, tiers |-> tiers]

AtAwait ==
  \/ pc \in {"start", "awaiting", "done"}
  \/ variant = "extras" /\ pc = "baseline"

\* the Advice kept in one variable of the module instead of a let of POST
SwitchSharingAdvice ==
  /\ other.pc # "absent"
  /\ AtAwait
  /\ other' = [Current EXCEPT !.advice = other.advice]
  /\ variant' = other.variant
  /\ req' = other.req
  /\ now' = other.now
  /\ pc' = other.pc
  /\ receivedAt' = other.receivedAt
  /\ rule' = other.rule
  /\ days' = other.days
  /\ readyDate' = other.readyDate
  /\ windowStart' = other.windowStart
  /\ windowEnd' = other.windowEnd
  /\ baseSummary' = other.baseSummary
  /\ summary' = other.summary
  /\ ai' = other.ai
  /\ gwCalls' = other.gwCalls
  /\ arith' = other.arith
  /\ advisory' = other.advisory
  /\ resp' = other.resp
  /\ rawText' = other.rawText
  /\ thrown' = other.thrown
  /\ tiers' = other.tiers
  /\ UNCHANGED <<rules, run, prev, page, advice>>

\* the running handler is suspended and the other one resumed
Switch ==
  /\ other.pc # "absent"
  /\ AtAwait
  /\ other' = Current
  /\ variant' = other.variant
  /\ req' = other.req
  /\ now' = other.now
  /\ pc' = other.pc
  /\ receivedAt' = other.receivedAt
  /\ rule' = other.rule
  /\ days' = other.days
  /\ readyDate' = other.readyDate
  /\ windowStart' = other.windowStart
  /\ windowEnd' = other.windowEnd
  /\ baseSummary' = other.baseSummary
  /\ advice' = other.advice
  /\ summary' = other.summary
  /\ ai' = other.ai
  /\ gwCalls' = other.gwCalls
  /\ arith' = other.arith
  /\ advisory' = other.advisory
  /\ resp' = other.resp
  /\ rawText' = other.rawText
  /\ thrown' = other.thrown
  /\ tiers' = other.tiers
  /\ UNCHANGED <<rules, run, prev, page>>

Next ==
  \/ RipenessValidate
  \/ RipenessLookup
  \/ RipenessBaseline
  \/ CallGateway
  \/ RipenessAdvisorReturns
  \/ RipenessAdvisorThrows
  \/ SimpleRead
  \/ SimpleLookup
  \/ SimpleBaseline
  \/ SimpleAdvisorReturns
  \/ SimpleAdvisorThrows
  \/ ExtrasRead
  \/ ExtrasBase
  \/ ExtrasAdvisorReturns
  \/ ExtrasAdvisorThrows

Spec == Init /\ [][Next]_vars

NextRerun == Next \/ Resubmit

SpecRerun == InitRerun /\ [][NextRerun]_vars

\* the requests of the two handlers: they differ in storage, in intake date
\* and in whether the item is known
PairRequests ==
  {Request(TRUE, ScenarioSku, D(2024, 1, 1), "room", "normal"),
   Request(TRUE, "unknown-sku", D(2024, 1, 1), "room", "normal")}

OtherRequests ==
  {Request(TRUE, ScenarioSku, D(2024, 2, 28), "fridge", "hot")}

InitPair ==
  /\ Fresh(PairRequests)
  /\ other \in {Context(v, rq, "start") : v \in Variants, rq \in OtherRequests}
  /\ page = NoPage

NextPair == Next \/ Switch

SpecPair == InitPair /\ [][NextPair]_vars

(***************************************************************************)
(* The ripeness page: page.tsx, and its versions part_000 and part_001     *)
(* (the second component of that file).  The server is whatever answers    *)
(* the fetch: any of its answers can follow any request.                   *)
(***************************************************************************)
PageVersions == {"page", "part_000", "part_001"}

\* what the select and the date field can hold; part_000 keeps a Sku and
\* sets it behind isSku (lines 37, 49, 99)
PageSkus(version) ==
  IF version = "part_000" THEN {ScenarioSku}
  ELSE {ScenarioSku, "unknown-sku", ""}

PageDates ==
  {D(2024, 1, 1), WithSlashes(D(2024, 1, 1)), <<>>, <<"a", "b", "c">>}

\* !sku || !RULES.some((r) => r.sku === sku), negated
KnownSku(k) == k # "" /\ \E i \in 1..Len(Dataset) : Dataset[i].sku = k

\* the test of the date as submit reads it
DateOk(d) == IsCanonicalDate(ReplaceSlashes(d))

SkuMessage == <<"sku-not-valid">>
DateMessage == <<"date-not-canonical">>
\* page.tsx line 157 and line 162
FailedMessage == <<"diagnosis-failed">>
NetworkMessage == <<"network-failed">>
\* e.message of what fetch or res.json() throws
FetchErrorText == <<"TypeError: Failed to fetch">>

\* the user edits the form (setSku, setReceivedAt)
EditForm ==
  /\ \E k \in PageSkus(page.version), d \in PageDates :
       /\ <<k, d>> # <<page.sku, page.receivedAt>>
       /\ page' = [page EXCEPT !.sku = k, !.receivedAt = d]
  /\ UNCHANGED <<rules, variant, req, now, pc, receivedAt, rule, days,
                 readyDate, windowStart, windowEnd, baseSummary, advice,
                 summary, ai, gwCalls, arith, advisory, resp, run, prev,
                 rawText, thrown, tiers, other>>

\* a button that can be clicked at any time
CanClickAlways == TRUE

\* disabled={loading} (page.tsx 279, part_000 174, part_001 433)
CanClick == ~page.loading

\* a run of submit up to its return or its await.  page.tsx 128-141 and
\* part_001 296-309 clear error and result and test the form; part_000
\* 56-58 does not test it.  A run that passes sets loading and sends
\* {sku, receivedAt with "/" replaced, ...}.
Started(p) ==
  [p EXCEPT !.submits = p.submits + 1,
            !.result = IsNull,
            !.error = IsNull,
            !.valid = KnownSku(p.sku) /\ DateOk(p.receivedAt),
            !.sent = 0,
            !.body = NoBody]

Rejected(p, message) ==
  [Started(p) EXCEPT !.error = ErrorOf(message),
                     !.outcome = "invalid",
                     !.loading = IF p.version = "page" THEN p.loading
                                 ELSE FALSE]

Sending(p) ==
  [Started(p) EXCEPT !.loading = TRUE,
                     !.inflight = p.inflight + 1,
                     !.sent = 1,
                     !.body = [sku |-> p.sku,
                               receivedAt |-> ReplaceSlashes(p.receivedAt)],
                     !.outcome = "pending"]

Submit ==
  /\ CanClick
  /\ page.submits < MaxSubmits
  /\ page' = IF page.version = "part_000" THEN Sending(page)
             ELSE IF ~KnownSku(page.sku) THEN Rejected(page, SkuMessage)
             ELSE IF ~DateOk(page.receivedAt)
             THEN Rejected(page, DateMessage)
             ELSE Sending(page)
  /\ UNCHANGED <<rules, variant, req, now, pc, receivedAt, rule, days,
                 readyDate, windowStart, windowEnd, baseSummary, advice,
                 summary, ai, gwCalls, arith, advisory, resp, run, prev,
                 rawText, thrown, tiers, other>>

\* the bodies of the responses: a 200 of one of the routes, the errors the
\* routes answer with, and a JSON body without an error property
OkBodies ==
  {[NoResp EXCEPT !.status = 200,
                  !.fields = {"sku", "name", "readyDate", "summary"},
                  !.sku = ScenarioSku,
                  !.readyDate = D(2024, 1, 6)]}

ErrorBodies ==
  {ErrorResp(400, DateFormatError), ErrorResp(400, UnknownSku),
   ErrorResp(500, InvalidTimeValue),
   [NoResp EXCEPT !.status = 502]}

\* data?.error || "..." (page.tsx 157), json.error ?? "error" (part_000 68),
\* json.error || "error" (part_001 327)
ErrorMessage(version, body) ==
  IF "error" \in body.fields THEN body.error
  ELSE IF version = "page" THEN FailedMessage
  ELSE <<"error">>

\* the finally block: setLoading(false)
Finished(p, outcome) ==
  [p EXCEPT !.loading = FALSE, !.inflight = p.inflight - 1,
            !.outcome = outcome]

\* res.ok: setResult(data)
FetchOk ==
  /\ page.inflight > 0
  /\ \E data \in OkBodies :
       page' = [Finished(page, "ok") EXCEPT !.result = ResultOf(data)]
  /\ UNCHANGED <<rules, variant, req, now, pc, receivedAt, rule, days,
                 readyDate, windowStart, windowEnd, baseSummary, advice,
                 summary, ai, gwCalls, arith, advisory, resp, run, prev,
                 rawText, thrown, tiers, other>>

\* !res.ok: setError of the body's message (page.tsx), or an Error thrown
\* with it and caught (part_000, part_001)
FetchNotOk ==
  /\ page.inflight > 0
  /\ \E body \in ErrorBodies :
       page' = [Finished(page, "notok") EXCEPT
                  !.error = ErrorOf(ErrorMessage(page.version, body))]
  /\ UNCHANGED <<rules, variant, req, now, pc, receivedAt, rule, days,
                 readyDate, windowStart, windowEnd, baseSummary, advice,
                 summary, ai, gwCalls, arith, advisory, resp, run, prev,
                 rawText, thrown, tiers, other>>

\* fetch rejects, or the body is not JSON and res.json() rejects: the catch
\* block
FetchFails ==
  /\ page.inflight > 0
  /\ page' = [Finished(page, "failed") EXCEPT
                !.error = ErrorOf(IF page.version = "page"
                                  THEN NetworkMessage
                                  ELSE FetchErrorText)]
  /\ UNCHANGED <<rules, variant, req, now, pc, receivedAt, rule, days,
                 readyDate, windowStart, windowEnd, baseSummary, advice,
                 summary, ai, gwCalls, arith, advisory, resp, run, prev,
                 rawText, thrown, tiers, other>>

InitPage ==
  /\ Fresh({Request(FALSE, "", <<>>, "", "")})
  /\ variant = "ripeness"
  /\ other = NoOther
  /\ page \in {PageState(v, ScenarioSku, D(2024, 1, 1)) : v \in PageVersions}

NextPage ==
  \/ EditForm
  \/ Submit
  \/ FetchOk
  \/ FetchNotOk
  \/ FetchFails

SpecPage == InitPage /\ [][NextPage]_vars

\* The runtime runs a handler up to its next await, so a handler that has
\* the call to make makes it.  The routes pass no timeout and no abort
\* signal to the call (route.ts 281-284 and 103-109, part_003 84-92) and
\* start no timer of their own, so nothing in them makes the awaited promise
\* settle: the advisor's answer is left without a fairness condition.
SpecLive == Init /\ [][Next]_vars /\ WF_vars(CallGateway)

(***************************************************************************)
(* Properties.                                                             *)
(***************************************************************************)
KnownSkus == {rules[i].sku : i \in 1..Len(rules)}

ClientError == resp.status \in 400..499

\* the handler has computed its baseline in this run
BaselineDone == pc \in {"advisor", "awaiting"} \/ (pc = "done" /\ advisory # "none")

\* C1: once the baseline is computed, every outcome of the advisory stage
\* (the call returns any text or none, or throws) ends in a 200 response that
\* carries the computed ready date and, in the routes that return one, the
\* base summary; a response that is not 200 was produced before the baseline
\* existed and before the advisor was called.
C1_AdvisoryNeverFails ==
  /\ pc = "done" /\ advisory # "none" =>
       /\ resp.status = 200
       /\ "readyDate" \in resp.fields
       /\ resp.readyDate = readyDate
       /\ readyDate # <<>>
       /\ variant # "simple" =>
            "baseSummary" \in resp.fields /\ resp.baseSummary = baseSummary
  /\ pc = "done" /\ resp.status # 200 =>
       /\ advisory = "none"
       /\ gwCalls = 0
       /\ readyDate = <<>>
  /\ pc \in {"advisor", "awaiting"} => resp.status = 0 /\ readyDate # <<>>

C1_Witness ==
  /\ pc = "done"
  /\ variant = "ripeness"
  /\ advisory = "failed"
  /\ resp.status = 200
  /\ resp.readyDate = D(2024, 1, 6)

\* a text that is a string and has a character that is not white space
NonBlankString(v) == v.k = "str" /\ ~IsBlank(v.s)

\* C2: every 200 response of the ripeness route has an Advice whose summary
\* is a non-blank text.
C2_SummaryNeverBlank ==
  pc = "done" /\ variant = "ripeness" /\ resp.status = 200 =>
    /\ "advice" \in resp.fields
    /\ NonBlankString(resp.advice.summaryMd)

\* C3: when the advisor call throws, the Advice returned is the synthetic
\* fallback: its summary names the computed window's start and end dates and
\* its window is the computed window.
C3_FallbackNamesWindow ==
  pc = "done" /\ variant = "ripeness" /\ advisory = "failed" =>
    /\ resp.advice.ripenessWindow = Win(windowStart, windowEnd)
    /\ Includes(resp.advice.summaryMd.s, windowStart)
    /\ Includes(resp.advice.summaryMd.s, windowEnd)

\* C4: a request whose identifier matches no rule never reaches date
\* arithmetic or the advisor, and ends in a 4xx response without a ready date
\* or an Advice.
C4_UnknownSkuShortCircuits ==
  variant \in {"ripeness", "simple"} /\ req.json_ok /\ req.sku \notin KnownSkus =>
    /\ ~arith
    /\ gwCalls = 0
    /\ readyDate = <<>>
    /\ pc \in {"start", "lookup", "done"}
    /\ pc = "done" =>
         /\ ClientError
         /\ resp.fields = {"error"}
         /\ resp.readyDate = <<>>
         /\ resp.advice = NoAdvice

C4_Witness ==
  /\ pc = "done"
  /\ variant \in {"ripeness", "simple"}
  /\ req.sku \notin KnownSkus
  /\ resp.status = 400
  /\ resp.error = UnknownSku

\* C5: in the routes that compute the ready date from the intake date, a
\* request whose intake date (with "/" replaced by "-") is not of the form
\* YYYY-MM-DD ends in a 4xx response that carries only the error message.
C5_MalformedDateIsClientError ==
  /\ pc = "done"
  /\ variant \in {"ripeness", "simple"}
  /\ req.json_ok
  /\ ~IsCanonicalDate(ReplaceSlashes(req.receivedAt))
  => /\ ClientError
     /\ resp.fields = {"error"}

\* C6: a request whose storage mode or climate band is not one of the
\* enumerated values ends in a 4xx response and no ready date is computed.
C6_UnknownEnumIsClientError ==
  /\ variant = "ripeness"
  /\ req.json_ok
  /\ req.storage \notin Storages \/ req.climate \notin Climates
  => /\ ~arith
     /\ pc = "done" => ClientError

\* C7: two runs of a route on the same request give the same ready date and
\* the same base summary, whatever the advisor answered and whenever the
\* runs were made.
C7_BaselineRepeatable ==
  pc = "done" /\ run > 1 /\ resp.status = 200 /\ prev.status = 200 =>
    /\ resp.readyDate = prev.readyDate
    /\ resp.baseSummary = prev.baseSummary
    /\ variant = "simple" => resp.summary = prev.summary

\* a <= b for two texts read as calendar dates YYYY-MM-DD
DateLeq(a, b) ==
  /\ IsCanonicalDate(a)
  /\ IsCanonicalDate(b)
  /\ NewDate(a).valid
  /\ NewDate(b).valid
  /\ NewDate(a).day <= NewDate(b).day

\* C8: for every request the ripeness route accepts, the dates it computes
\* satisfy windowStart <= readyDate <= windowEnd, intake <= windowStart and
\* intake <= readyDate.
C8_WindowOrdered ==
  variant = "ripeness" /\ BaselineDone =>
    /\ DateLeq(windowStart, readyDate)
    /\ DateLeq(readyDate, windowEnd)
    /\ DateLeq(receivedAt, windowStart)
    /\ DateLeq(receivedAt, readyDate)

\* the same, for the requests whose window ends within the year 9999
C8_WindowOrderedBelowYear10000 ==
  variant = "ripeness" /\ BaselineDone
  /\ NewDate(receivedAt).day + days + 1 <= DaysFromCivil(9999, 12, 31) =>
    /\ DateLeq(windowStart, readyDate)
    /\ DateLeq(readyDate, windowEnd)
    /\ DateLeq(receivedAt, windowStart)
    /\ DateLeq(receivedAt, readyDate)

\* the day count a rule gives, 0 when the rule omits it
RoomDays == IF rule.ripen_room_days = <<>> THEN 0 ELSE rule.ripen_room_days[1]
CoolDays == IF rule.ripen_cool_days = <<>> THEN 0 ELSE rule.ripen_cool_days[1]

\* C9: in both routes that call calcDays, with a normal climate the day
\* count is the rule's room-temperature count when storage is room or
\* cool-dark and its cool-storage count when storage is vegetable drawer or
\* refrigerator; the scenario rule (5 and 3 days) in the refrigerator in a
\* hot climate gives 2 days.
C9_BucketPolicy ==
  variant \in {"ripeness", "simple"} /\ arith =>
    /\ req.climate = "normal" /\ req.storage \in {"room", "cooldark"} =>
         days = RoomDays
    /\ req.climate = "normal" /\ req.storage \in {"vegroom", "fridge"} =>
         days = CoolDays
    /\ rule.sku = ScenarioSku /\ req.storage = "fridge" /\ req.climate = "hot" =>
         days = 2
    /\ rule.sku = ScenarioSku /\ req.storage = "cooldark" /\ req.climate = "hot" =>
         days = 4

C9_Witness ==
  /\ arith
  /\ variant = "simple"
  /\ rule.sku = ScenarioSku
  /\ req.storage = "fridge"
  /\ req.climate = "hot"
  /\ days = 2

\* the base day count of the request's storage bucket
BaseDays == IF req.storage \in {"room", "cooldark"} THEN RoomDays ELSE CoolDays

\* C10: the day count is never negative; it is the base count minus one
\* (not below zero) when hot, plus one when cold and the base count itself
\* when normal; a rule that omits the count counts as 0, and a base of 0 gives
\* 0 when hot and 1 when cold.
C10_ClimateDeltaClamped ==
  variant \in {"ripeness", "simple"} /\ arith =>
    /\ days >= 0
    /\ req.climate = "hot" =>
         days = (IF BaseDays = 0 THEN 0 ELSE BaseDays - 1)
    /\ req.climate = "cold" => days = BaseDays + 1
    /\ req.climate = "normal" => days = BaseDays

C10_Witness ==
  /\ arith
  /\ variant = "ripeness"
  /\ req.storage = "room"
  /\ rule.ripen_room_days = <<>>
  /\ req.climate = "hot"
  /\ days = 0

\* the calendar date n days after the date the text s stands for
PlusDays(s, n) ==
  LET c == CivilFromDays(NewDate(s).day + n)
  IN  NumStr(c.y, IF c.y > 9999 THEN 5 ELSE 4) \o <<"-">> \o NumStr(c.m, 2) \o
      <<"-">> \o NumStr(c.d, 2)

\* C11: in the ripeness route, for days = calcDays(...), the ready date is
\* the intake date plus days, the window starts max(0, days - 1) days and
\* ends days + 1 days after the intake date, in whole calendar days, and the
\* response carries that ready date; the scenario rule (5 days at room
\* temperature) with room storage, normal climate and intake 2024-01-01 gives
\* 2024-01-06 and the window 2024-01-05..2024-01-07.
C11_DatesAreIntakePlusDays ==
  variant = "ripeness" /\ BaselineDone =>
    /\ days = calcDays(rule, req.storage, req.climate)
    /\ readyDate = PlusDays(receivedAt, days)
    /\ windowStart = PlusDays(receivedAt, Max(0, days - 1))
    /\ windowEnd = PlusDays(receivedAt, days + 1)
    /\ pc = "done" => resp.readyDate = readyDate
    /\ /\ rule.sku = ScenarioSku
       /\ req.storage = "room"
       /\ req.climate = "normal"
       /\ receivedAt = D(2024, 1, 1)
       => /\ readyDate = D(2024, 1, 6)
          /\ windowStart = D(2024, 1, 5)
          /\ windowEnd = D(2024, 1, 7)

\* the same, for the requests whose window ends within the year 9999
C11_DatesAreIntakePlusDaysBelowYear10000 ==
  NewDate(receivedAt).day + days + 1 <= DaysFromCivil(9999, 12, 31) =>
    C11_DatesAreIntakePlusDays

\* C12: a request whose advisor call has been sent eventually completes with
\* a response, even when the external service never answers.
C12_AdvisorCallBounded == (pc = "awaiting") ~> (pc = "done")

\* the text is not a date the validation of the ripeness route lets through
MalformedDate(s) ==
  \/ ~IsCanonicalDate(ReplaceSlashes(s))
  \/ ~NewDate(ReplaceSlashes(s)).valid

\* C13: within one request the advisor call is made at most once, and only
\* after validation and the baseline; a request that a route rejects (any
\* response that is not 200), and in particular a request with a malformed
\* date or an unknown identifier in the ripeness route or an unknown
\* identifier in the simple route, never reaches the call.
C13_GatewayAtMostOnce ==
  /\ gwCalls \in {0, 1}
  /\ gwCalls = 1 <=> (pc = "awaiting" \/ (pc = "done" /\ advisory # "none"))
  /\ pc = "done" /\ resp.status # 200 => gwCalls = 0
  /\ /\ variant = "ripeness"
     /\ req.json_ok
     /\ MalformedDate(req.receivedAt) \/ req.sku \notin KnownSkus
     => gwCalls = 0
  /\ variant = "simple" /\ req.json_ok /\ req.sku \notin KnownSkus =>
       gwCalls = 0

C13_Witness ==
  /\ pc = "done"
  /\ variant = "ripeness"
  /\ advisory = "failed"
  /\ resp.status = 200
  /\ gwCalls = 1

\* the Advice of the ripeness route when the advisor contributed nothing
StartAdvice ==
  [summaryMd |-> Str(<<>>), smartTips |-> Arr(<<>>), risks |-> Arr(<<>>),
   uses |-> Arr(<<>>), ripenessWindow |-> Win(windowStart, windowEnd)]

\* the advisor call threw
GatewayThrew == pc = "done" /\ advisory = "failed"

\* the advisor call returned no text, an empty text or only white space
GatewayBlank == pc = "done" /\ advisory = "succeeded" /\ rawText = <<>>

\* C14: in the ripeness and simple routes a request whose advisor call
\* throws and a request whose call returns an empty or blank text get the
\* same response: status 200 and the Advice (the summary, in the simple
\* route) that the baseline alone determines.
C14_FailureModesUniform ==
  GatewayThrew \/ GatewayBlank =>
    /\ variant = "ripeness" => resp = RipenessResp(StartAdvice)
    /\ variant = "simple" =>
         resp = SimpleResp(BaseSummaryText(readyDate, rule))
    /\ resp.status = 200

C14_Witness ==
  /\ GatewayBlank
  /\ variant = "simple"
  /\ resp.status = 200
  /\ resp.summary = BaseSummaryText(D(2024, 1, 6), rule)

\* C15: when the outer catch of a route handles an error that the route did
\* not raise itself, the response is a 5xx and its message is not the text
\* of that error.
C15_InternalFailureIsGeneric ==
  pc = "done" /\ thrown # <<>> /\ thrown # MissingFields =>
    /\ resp.status \in 500..599
    /\ resp.error # thrown

\* every field of the Advice has a value
IsCandidate(a) ==
  /\ a.summaryMd.k # "undef"
  /\ a.smartTips.k # "undef"
  /\ a.risks.k # "undef"
  /\ a.uses.k # "undef"
  /\ a.ripenessWindow.k # "undef"

StringList(v) == v.k = "arr" /\ \A i \in 1..Len(v.a) : v.a[i].k = "str"

\* the shape the Advice type declares
WellShaped(a) ==
  /\ a.summaryMd.k = "str"
  /\ StringList(a.smartTips)
  /\ StringList(a.risks)
  /\ StringList(a.uses)
  /\ a.ripenessWindow.k = "win"

\* C17: the Advice of a 200 response of the ripeness route has the declared
\* shape: a decoded object with a field of another shape is never accepted.
C17_OnlyWellShapedAccepted ==
  pc = "done" /\ variant = "ripeness" /\ resp.status = 200 =>
    WellShaped(resp.advice)

\* a text with no JSON object and no fence in it
PlainProse(t) ==
  /\ t # <<>>
  /\ \A i \in 1..Len(t) : ~Catalog(t[i]).brace /\ ~IsFence(t[i])

\* the Advice of the plain-text tier
ProseAdvice(t) ==
  [summaryMd |-> Str(t), smartTips |-> Arr(<<>>), risks |-> Arr(<<>>),
   uses |-> Arr(<<>>), ripenessWindow |-> Win(windowStart, windowEnd)]

\* C18: when the advisor's text is plain prose, the Advice has that text as
\* its summary, empty tips, risks and uses, and the computed window.
C18_ProseIsSummaryVerbatim ==
  /\ pc = "done"
  /\ variant = "ripeness"
  /\ advisory = "succeeded"
  /\ PlainProse(rawText)
  => resp.advice = ProseAdvice(rawText)

C18_Witness ==
  /\ pc = "done"
  /\ variant = "ripeness"
  /\ rawText = <<"prose", " ", "more">>
  /\ resp.advice.summaryMd = Str(<<"prose", " ", "more">>)
  /\ resp.advice.ripenessWindow = Win(D(2024, 1, 5), D(2024, 1, 7))

\* the text is, or has as its first fenced block, a JSON object without a
\* summaryMd property
LacksSummary(t) ==
  LET m == MatchFence(t)
      IsSuch(u) ==
        /\ Len(Trim(u)) = 1
        /\ Catalog(Trim(u)[1]).valid
        /\ Catalog(Trim(u)[1]).doc.v.k = "obj"
        /\ Catalog(Trim(u)[1]).doc.f["summaryMd"].k = "undef"
  IN  IsSuch(t) \/ (m.found /\ IsSuch(m.cap))

\* C19: when the advisor's text is, or contains in a fenced block, an
\* object without the summary field, nothing of the object is taken: the
\* whole text is the summary, tips, risks and uses are empty and the window
\* is the computed one.
C19_MissingSummaryTakesNothing ==
  /\ pc = "done"
  /\ variant = "ripeness"
  /\ advisory = "succeeded"
  /\ LacksSummary(rawText)
  => resp.advice = ProseAdvice(rawText)

C19_Witness ==
  /\ pc = "done"
  /\ variant = "ripeness"
  /\ rawText = <<"<fence:json>", "{nosummary}", "<fence>">>
  /\ resp.advice.smartTips = Arr(<<>>)
  /\ resp.advice.summaryMd = Str(rawText)

\* an array of at most MaxItems entries none of which is blank
CappedList(v) ==
  /\ v.k = "arr"
  /\ Len(v.a) <= MaxItems
  /\ \A i \in 1..Len(v.a) : ~IsBlank(ElemString(v.a[i]))

CappedTexts(ts) ==
  /\ Len(ts) <= MaxItems
  /\ \A i \in 1..Len(ts) : ~IsBlank(ts[i])

\* the extras route returns lists of at most MaxItems non-blank entries
C20_ExtrasListsCapped ==
  pc = "done" /\ variant = "extras" /\ resp.status = 200 =>
    /\ CappedTexts(resp.ai.tips)
    /\ CappedTexts(resp.ai.risks)
    /\ CappedTexts(resp.ai.ideas)

\* C20: in every 200 response of the ripeness route and of its extras
\* variant, each of the three lists has at most five entries and no blank
\* entry.
C20_ListsCappedAndNonBlank ==
  /\ C20_ExtrasListsCapped
  /\ pc = "done" /\ variant = "ripeness" /\ resp.status = 200 =>
       /\ CappedList(resp.advice.smartTips)
       /\ CappedList(resp.advice.risks)
       /\ CappedList(resp.advice.uses)

\* the decoded object was accepted as the candidate: the call returned and
\* the object has a summary (line 299)
CandidateAccepted ==
  advisory = "succeeded" /\ Truthy(Prop(ParseRaw(rawText), "summaryMd"))

\* the window the decoded object offers (undefined when it has none)
OfferedWindow == Prop(ParseRaw(rawText), "ripenessWindow")

Absent(v) == v.k \in {"undef", "null"}

\* C21: every 200 response of the ripeness route carries a window in its
\* Advice.  When the accepted candidate has a ripenessWindow that is neither
\* undefined nor null, the window is that value, unchanged; in every other
\* case (accepted object without a window, prose, no text, the call threw)
\* it is the computed window {start: windowStart, end: windowEnd}.
C21_WindowAlwaysPresent ==
  pc = "done" /\ variant = "ripeness" /\ resp.status = 200 =>
    /\ ~Absent(resp.advice.ripenessWindow)
    /\ resp.advice.ripenessWindow =
         IF CandidateAccepted /\ ~Absent(OfferedWindow)
         THEN OfferedWindow
         ELSE Win(windowStart, windowEnd)

\* an accepted object's own window is in the response, and it differs from
\* the computed one
C21_Witness ==
  /\ pc = "done" /\ variant = "ripeness" /\ resp.status = 200
  /\ CandidateAccepted
  /\ OfferedWindow = Win(AiStart, AiEnd)
  /\ resp.advice.ripenessWindow = Win(AiStart, AiEnd)
  /\ Win(windowStart, windowEnd) # Win(AiStart, AiEnd)

\* the fallback is used for an accepted object that has no window
C21_WitnessFallback ==
  /\ pc = "done" /\ variant = "ripeness" /\ resp.status = 200
  /\ CandidateAccepted
  /\ Absent(OfferedWindow)
  /\ resp.advice.ripenessWindow = Win(windowStart, windowEnd)

\* the number of entries of the response's ai object
AiEntries == Len(resp.ai.tips) + Len(resp.ai.risks) + Len(resp.ai.ideas)

\* C24: every 200 response of the extras route has at least one entry across
\* ai.tips, ai.risks and ai.ideas, whatever the call answered (an object, an
\* array, a scalar, null, text that is not JSON, nothing) and also when the
\* call threw.
C24_ExtrasAiNeverEmpty ==
  pc = "done" /\ variant = "extras" /\ resp.status = 200 => AiEntries > 0

\* What does hold: the default tip is added whenever normalizeAi is given an
\* object (an array included) whose lists come out empty.
C24_ObjectsGetTheDefaultTip ==
  /\ pc = "done" /\ variant = "extras" /\ resp.status = 200
  /\ advisory = "succeeded"
  /\ TryParse(rawText).doc.v.k \in {"obj", "arr"}
  => AiEntries > 0

\* the ripeness route went through its parser in this run
ParserRan == pc = "done" /\ variant = "ripeness" /\ advisory = "succeeded"

\* the whole text begins with "{" and is a JSON document
WholeDecoded(raw) == StartsWithBrace(raw) /\ JsonParse(raw).ok

\* what the structural tier decodes (null when it decodes nothing)
WholeDoc(raw) == IF WholeDecoded(raw) THEN JsonParse(raw).doc ELSE NullDoc

\* what the fenced-block tier decodes: the first block tagged json, else the
\* first block of any kind
FenceDoc(raw) ==
  LET m == MatchFence(raw)
  IN  IF m.found /\ m.cap # <<>> /\ JsonParse(m.cap).ok
      THEN JsonParse(m.cap).doc
      ELSE NullDoc

\* a tier's object is accepted when it has a summary (line 299)
HasSummary(doc) == Truthy(Prop(doc, "summaryMd"))

FromObject(doc, start) ==
  [summaryMd |-> Prop(doc, "summaryMd"),
   smartTips |-> Coalesce(Prop(doc, "smartTips"), Arr(<<>>)),
   risks |-> Coalesce(Prop(doc, "risks"), Arr(<<>>)),
   uses |-> Coalesce(Prop(doc, "uses"), Arr(<<>>)),
   ripenessWindow |-> Coalesce(Prop(doc, "ripenessWindow"),
                               start.ripenessWindow)]

\* The Advice of three tiers in strict order, each later one used whenever
\* the earlier one accepted nothing: the whole text, then the fenced block,
\* then the text itself.
TieredAdvice(raw, start) ==
  IF HasSummary(WholeDoc(raw)) THEN FromObject(WholeDoc(raw), start)
  ELSE IF HasSummary(FenceDoc(raw)) THEN FromObject(FenceDoc(raw), start)
  ELSE IF raw # <<>> THEN [start EXCEPT !.summaryMd = Str(raw)]
  ELSE start

\* C23 as stated: the structural decode is tried only when the text begins
\* with "{"; the fenced-block tier is tried exactly when the structural tier
\* accepted nothing, also when the whole text was decoded but has no
\* summary; the text itself is used only when neither tier accepted.
C23_EachLaterTierRuns ==
  ParserRan =>
    /\ "whole" \in tiers => StartsWithBrace(rawText)
    /\ "fence" \in tiers <=> ~HasSummary(WholeDoc(rawText))
    /\ "plain" \in tiers =>
         ~HasSummary(WholeDoc(rawText)) /\ ~HasSummary(FenceDoc(rawText))

\* C23, amended: the structural decode is tried exactly when the text begins
\* with "{"; the fenced-block search runs exactly when the whole text was not
\* decoded (it does not begin with "{" or is not a JSON document), so a text
\* that decodes to an object without a summary goes straight to the
\* plain-text tier; the text itself is used exactly when it is not empty and
\* no tier accepted.  The Advice is nevertheless the one of the strictly
\* ordered tiers, because a fenced block inside a JSON document cannot hold
\* an object with a summary.
C23_TiersInOrder ==
  ParserRan =>
    /\ "whole" \in tiers <=> StartsWithBrace(rawText)
    /\ "fence" \in tiers <=> ~WholeDecoded(rawText)
    /\ "plain" \in tiers <=>
         /\ ~HasSummary(WholeDoc(rawText))
         /\ ~HasSummary(FenceDoc(rawText))
         /\ rawText # <<>>
    /\ resp.advice = TieredAdvice(rawText, StartAdvice)

\* a JSON object without a summary whose string holds a fenced block: the
\* block is not searched for and the text becomes the summary
C23_Witness ==
  /\ ParserRan
  /\ WholeDecoded(rawText)
  /\ MatchFence(rawText).found
  /\ tiers = {"whole", "plain"}
  /\ resp.advice.summaryMd = Str(rawText)

\* the fenced block is used after the whole text failed to decode
C23_WitnessFence ==
  /\ ParserRan
  /\ tiers = {"whole", "fence"}
  /\ resp.advice.summaryMd = Str(AiSummary)

\* The response a request gets from a handler that runs with nothing beside
\* it, as a function of what the handler is given: the route, the request,
\* its reading of the clock (today), the outcome of its advisor call and the
\* text the call returned.
AloneRipeness(rq, outcome, raw) ==
  IF ~rq.json_ok THEN ErrorResp(500, BodySyntaxError)
  ELSE IF normalizeDate(rq.receivedAt) = NullText
  THEN ErrorResp(400, DateFormatError)
  ELSE IF Find(Dataset, rq.sku) = NoRule THEN ErrorResp(400, UnknownSku)
  ELSE LET r == Find(Dataset, rq.sku)
           d == NewDate(normalizeDate(rq.receivedAt))
           n == calcDays(r, rq.storage, rq.climate)
           w == calcWindowDays(n)
           rd == IsoDate(addDays(d, n))
           start == [summaryMd |-> Str(<<>>), smartTips |-> Arr(<<>>),
                     risks |-> Arr(<<>>), uses |-> Arr(<<>>),
                     ripenessWindow |-> Win(IsoDate(addDays(d, w.start)),
                                            IsoDate(addDays(d, w.end)))]
       IN  [NoResp EXCEPT !.status = 200,
                          !.fields = {"sku", "name", "readyDate",
                                      "baseSummary", "advice", "summary"},
                          !.sku = r.sku, !.name = r.name, !.readyDate = rd,
                          !.baseSummary = BaseSummaryText(rd, r),
                          !.advice = IF outcome = "succeeded"
                                     THEN AdviceFrom(raw, start)
                                     ELSE start,
                          !.summary = BaseSummaryText(rd, r)]

AloneSimple(rq, outcome, raw) ==
  IF ~rq.json_ok THEN ErrorResp(500, BodySyntaxError)
  ELSE IF Find(Dataset, rq.sku) = NoRule THEN ErrorResp(400, UnknownSku)
  ELSE LET r == Find(Dataset, rq.sku)
           d == addDays(NewDate(ReplaceSlashes(rq.receivedAt)),
                        calcDays(r, rq.storage, rq.climate))
       IN  IF IsNaNDate(d) THEN ErrorResp(500, InvalidTimeValue)
           ELSE [NoResp EXCEPT !.status = 200,
                               !.fields = {"sku", "name", "readyDate",
                                           "summary"},
                               !.sku = r.sku, !.name = r.name,
                               !.readyDate = IsoDate(d),
                               !.summary =
                                  IF outcome = "succeeded" /\ raw # <<>>
                                  THEN raw
                                  ELSE BaseSummaryText(IsoDate(d), r)]

AloneExtras(rq, today, outcome, raw) ==
  IF ~rq.json_ok THEN ErrorResp(400, BodySyntaxError)
  ELSE IF rq.sku = "" \/ Trim(rq.receivedAt) = <<>>
  THEN ErrorResp(400, MissingFields)
  ELSE [NoResp EXCEPT !.status = 200,
                      !.fields = {"sku", "readyDate", "baseSummary", "ai",
                                  "model"},
                      !.sku = rq.sku, !.readyDate = ExtrasReadyDate(today),
                      !.baseSummary =
                         ExtrasBaseSummary(ExtrasReadyDate(today)),
                      !.ai = IF outcome = "succeeded"
                             THEN ExtrasAi(Content(raw))
                             ELSE NoAi]

AloneResp(c) ==
  CASE c.variant = "ripeness" -> AloneRipeness(c.req, c.advisory, c.rawText)
    [] c.variant = "simple" -> AloneSimple(c.req, c.advisory, c.rawText)
    [] OTHER -> AloneExtras(c.req, c.now, c.advisory, c.rawText)

\* AloneResp is the response of a handler that runs alone (stated for the
\* specification with one request)
AloneRespIsTheSoloResponse == pc = "done" => resp = AloneResp(Current)

\* C22: with two handlers interleaved at their awaits in any order, the
\* response of each, once it has returned, is the response the same request
\* gets when run alone, and the rule dataset is the one that was loaded.
C22_PipelinesIndependent ==
  /\ rules = Dataset
  /\ pc = "done" => resp = AloneResp(Current)
  /\ other.pc = "done" => other.resp = AloneResp(other)

\* a handler has returned 200 while the other one, which began before it, is
\* still waiting for its advisor; the two work on different windows
C22_Witness ==
  /\ pc = "done" /\ resp.status = 200 /\ advisory = "succeeded"
  /\ other.pc = "awaiting"
  /\ variant = "ripeness" /\ other.variant = "ripeness"
  /\ other.advice.ripenessWindow # StartAdvice.ripenessWindow
  /\ resp = AloneResp(Current)

\* both handlers have returned 200 with different responses
C22_WitnessBothDone ==
  /\ pc = "done" /\ other.pc = "done"
  /\ resp.status = 200 /\ other.resp.status = 200
  /\ variant = "ripeness" /\ other.variant = "ripeness"
  /\ resp.readyDate # other.resp.readyDate
  /\ resp.advice.ripenessWindow # other.resp.advice.ripenessWindow

\* no run of submit is waiting for its fetch
PageIdle == page.inflight = 0

\* what a run leaves in the hooks, by the way it ended; loading is false
\* whenever no run is under way, result and error are never both set, and
\* at most one run is under way
RunsEndClean ==
  /\ page.inflight <= 1
  /\ PageIdle => ~page.loading
  /\ ~(page.result.set /\ page.error.set)
  /\ page.outcome = "invalid" =>
       page.error.set /\ ~page.result.set /\ page.sent = 0
  /\ page.outcome \in {"notok", "failed"} =>
       page.error.set /\ ~page.result.set
  /\ page.outcome = "ok" => page.result.set /\ ~page.error.set

\* a run that read an unknown sku or a malformed date ended as a validation
\* failure and sent nothing
InvalidFormIsNotSent ==
  page.submits > 0 /\ ~page.valid =>
    page.outcome = "invalid" /\ page.sent = 0

\* C25: in every version of the page, every run of submit ends with loading
\* false and with at most one of result and error set; a form with an
\* unknown sku or a malformed date sets error and sends no request; a
\* response that is not OK and a failed fetch set error and leave result
\* null; an OK response sets result and leaves error null; no second run
\* starts while loading is true.
C25_SubmitEndsClean == RunsEndClean /\ InvalidFormIsNotSent

\* What does hold: everything but the validation in part_000, and the whole
\* statement in page.tsx and in part_001.
C25_ValidatingPagesEndClean ==
  /\ RunsEndClean
  /\ page.version # "part_000" => InvalidFormIsNotSent

\* part_000 has sent a request whose date is empty
C25_Part000SendsUnchecked ==
  /\ page.version = "part_000"
  /\ page.sent = 1
  /\ page.body.receivedAt = <<>>

\* no operation of the page writes the rule dataset
PageLeavesRulesAlone == rules = Dataset

====
